---- MODULE Spec2Model ----
(***************************************************************************)
(* Model of src/Flashcards.py: the FlashcardManager card store (the two    *)
(* insertion-ordered dicts cards and error_counter), the commands of the   *)
(* FlashcardApp.run loop, and the text conversions (str.strip, int, str)   *)
(* used by import and export.                                              *)
(*                                                                         *)
(* A Python str is modelled as a sequence of one-character strings, a      *)
(* Python dict as a sequence of [k, v] entries in insertion order.         *)
(***************************************************************************)
EXTENDS Integers, Sequences, FiniteSets, TLC

VARIABLES cards, error_counter, pc, term, terms, remaining, out, io

vars == <<cards, error_counter, pc, term, terms, remaining, out, io>>

(***************************************************************************)
(* Bounds of the model.                                                    *)
(***************************************************************************)
MaxLines == 4     \* longest input file, in lines
MaxAsk == 2       \* largest reply to "How many times to ask?"
MaxErr == 1       \* a wrong answer is only given below this error count

(***************************************************************************)
(* The texts the user types and the lines an input file holds.             *)
(***************************************************************************)
NL == "\n"
Whitespace == {" ", NL, "\t", "\r"}

Terms == {<<"a">>, <<" ", "a">>}
Defs == {<<"x">>, <<"y">>}
CountTexts == {<<"1">>, <<"-", "1">>, <<"x">>}

None == <<"<None>">>

(***************************************************************************)
(* Python dict (insertion ordered).                                        *)
(***************************************************************************)
Range(s) == {s[i] : i \in 1..Len(s)}

Keys(d) == [i \in 1..Len(d) |-> d[i].k]

Values(d) == [i \in 1..Len(d) |-> d[i].v]

KeySet(d) == {d[i].k : i \in 1..Len(d)}

Has(d, key) == key \in KeySet(d)

Get(d, key) == d[CHOOSE i \in 1..Len(d) : d[i].k = key].v

\* d.setdefault(key, val): an existing key keeps its value
DictSet_keep(d, key, val) ==
    IF Has(d, key) THEN d ELSE Append(d, [k |-> key, v |-> val])

\* d[key] = val : an existing key keeps its position, a new key goes last
DictSet(d, key, val) ==
    IF Has(d, key)
    THEN [i \in 1..Len(d) |-> IF d[i].k = key THEN [k |-> key, v |-> val] ELSE d[i]]
    ELSE Append(d, [k |-> key, v |-> val])

\* d.pop(key) for a key that is present
DictPop_last(d, key) == SubSeq(d, 1, Len(d) - 1)

DictPop(d, key) == SelectSeq(d, LAMBDA e : e.k # key)

(***************************************************************************)
(* str.strip(), int(str) and str(int).                                     *)
(***************************************************************************)
RECURSIVE LStrip(_)
LStrip(s) ==
    IF s # <<>> /\ Head(s) \in Whitespace THEN LStrip(Tail(s)) ELSE s

RECURSIVE RStrip(_)
RStrip(s) ==
    IF s # <<>> /\ s[Len(s)] \in Whitespace
    THEN RStrip(SubSeq(s, 1, Len(s) - 1))
    ELSE s

Strip(s) == RStrip(LStrip(s))

DigitVal ==
    "0" :> 0 @@ "1" :> 1 @@ "2" :> 2 @@ "3" :> 3 @@ "4" :> 4 @@
    "5" :> 5 @@ "6" :> 6 @@ "7" :> 7 @@ "8" :> 8 @@ "9" :> 9

IsDigits(s) == s # <<>> /\ \A i \in 1..Len(s) : s[i] \in DOMAIN DigitVal

RECURSIVE DigitsValue(_)
DigitsValue(s) ==
    IF s = <<>> THEN 0
    ELSE 10 * DigitsValue(SubSeq(s, 1, Len(s) - 1)) + DigitVal[s[Len(s)]]

\* int(s): [ok |-> TRUE, val |-> n], or ok = FALSE where Python raises ValueError
ParseInt(s) ==
    LET t == Strip(s)
        signed == t # <<>> /\ Head(t) \in {"-", "+"}
        body == IF signed THEN Tail(t) ELSE t
    IN  IF IsDigits(body)
        THEN [ok |-> TRUE,
              val |-> IF signed /\ Head(t) = "-" THEN 0 - DigitsValue(body)
                      ELSE DigitsValue(body)]
        ELSE [ok |-> FALSE, val |-> 0]

DigitChar(n) == CHOOSE c \in DOMAIN DigitVal : DigitVal[c] = n

RECURSIVE NatStr(_)
NatStr(n) ==
    IF n < 10 THEN <<DigitChar(n)>>
    ELSE Append(NatStr(n \div 10), DigitChar(n % 10))

\* str(n)
Str(n) == IF n < 0 THEN <<"-">> \o NatStr(0 - n) ELSE NatStr(n)

(***************************************************************************)
(* Input files: every line ends with a newline; lines come in the order    *)
(* term, definition, error count.  Missing stands for a path that does not *)
(* exist.                                                                  *)
(***************************************************************************)
Missing == <<<<"<missing>">>>>

LineAt(i) ==
    IF i % 3 = 1 THEN {Append(t, NL) : t \in Terms}
    ELSE IF i % 3 = 2 THEN {Append(d, NL) : d \in Defs}
    ELSE {Append(c, NL) : c \in CountTexts}

RECURSIVE FilesOfLen(_)
FilesOfLen(n) ==
    IF n = 0 THEN {<<>>}
    ELSE {Append(f, l) : f \in FilesOfLen(n - 1), l \in LineAt(n)}

InputFiles == UNION {FilesOfLen(n) : n \in 0..MaxLines}

(***************************************************************************)
(* import_card: the loop over the lines read, from index i (1-based).      *)
(* raised names the exception that ends the loop early, "none" otherwise.  *)
(***************************************************************************)
RECURSIVE ImportLoop(_, _, _, _)
ImportLoop(lines, i, c, e) ==
    IF i > Len(lines)
    THEN [cards |-> c, error_counter |-> e, raised |-> "none"]
    ELSE IF i + 1 > Len(lines) \/ i + 2 > Len(lines)
    THEN [cards |-> c, error_counter |-> e, raised |-> "IndexError"]
    ELSE LET t == Strip(lines[i])
             d == Strip(lines[i + 1])
             n == ParseInt(Strip(lines[i + 2]))
         IN  IF ~n.ok
             THEN [cards |-> c, error_counter |-> e, raised |-> "ValueError"]
             ELSE ImportLoop(lines, i + 3, DictSet(c, t, d), DictSet(e, t, n.val))

\* the try block of import_card on the lines read: the two dicts afterwards,
\* the exception raised if any, and the number printed as loaded
ImportInto(c, e, lines) ==
    LET r == ImportLoop(lines, 1, c, e)
    IN  [cards |-> r.cards, error_counter |-> r.error_counter,
         raised |-> r.raised, loaded |-> Len(lines) \div 3]

\* import_card without its except clause: the error leaves run
AfterFileNotFound_raise == "crashed"

\* where run goes on after a FileNotFoundError in import_card: the except
\* clause prints and returns to the prompt
AfterFileNotFound == "prompt"

(***************************************************************************)
(* export_card: the lines written, in the order of cards.items().          *)
(* KeyError is raised when a term has no error_counter entry.              *)
(***************************************************************************)
RECURSIVE ExportLoop(_, _, _)
ExportLoop(c, e, i) ==
    IF i > Len(c) THEN [lines |-> <<>>, raised |-> "none"]
    ELSE IF ~Has(e, c[i].k) THEN [lines |-> <<>>, raised |-> "KeyError"]
    ELSE LET rest == ExportLoop(c, e, i + 1)
         IN  [lines |-> <<Append(c[i].k, NL), Append(c[i].v, NL),
                          Append(Str(Get(e, c[i].k)), NL)>> \o rest.lines,
              raised |-> rest.raised]

ExportLines(c, e) == ExportLoop(c, e, 1)

(***************************************************************************)
(* ask_card: grading of one answer; hardest_card: the report.              *)
(***************************************************************************)
\* the last card with the definition instead of the first
FirstMatch_last(c, answer) ==
    c[CHOOSE i \in 1..Len(c) :
        /\ c[i].v = answer
        /\ \A j \in (i + 1)..Len(c) : c[j].v # answer].k

\* next(c for c, defn in cards.items() if defn == answer)
FirstMatch(c, answer) ==
    c[CHOOSE i \in 1..Len(c) :
        /\ c[i].v = answer
        /\ \A j \in 1..(i - 1) : c[j].v # answer].k

Grade(c, asked, answer) ==
    IF answer = Get(c, asked)
    THEN [outcome |-> "Correct", match |-> None]
    ELSE IF answer \in Range(Values(c))
    THEN [outcome |-> "WrongButMatchesOtherTerm", match |-> FirstMatch(c, answer)]
    ELSE [outcome |-> "Wrong", match |-> None]

\* the elif branch counting the error on matching_card instead of term
ErrorsAfter_match(c, e, asked, answer) ==
    IF answer = Get(c, asked) THEN e
    ELSE IF answer \in Range(Values(c))
    THEN DictSet(e, FirstMatch(c, answer), Get(e, FirstMatch(c, answer)) + 1)
    ELSE DictSet(e, asked, Get(e, asked) + 1)

\* error_counter after the answer: the asked term's count goes up by one in
\* both wrong branches
ErrorsAfter(c, e, asked, answer) ==
    IF answer = Get(c, asked) THEN e
    ELSE IF answer \in Range(Values(c)) THEN DictSet(e, asked, Get(e, asked) + 1)
    ELSE DictSet(e, asked, Get(e, asked) + 1)

\* max(d.values()) of a non-empty dict
MaxValue(d) == CHOOSE m \in Range(Values(d)) : \A v \in Range(Values(d)) : v <= m

HardestReport(e) ==
    IF e = <<>> \/ MaxValue(e) = 0
    THEN [none |-> TRUE, hardest_cards |-> <<>>, most_errors |-> 0]
    ELSE [none |-> FALSE,
          hardest_cards |-> Keys(SelectSeq(e, LAMBDA x : x.v = MaxValue(e))),
          most_errors |-> MaxValue(e)]

\* for key in error_counter.keys(): error_counter[key] = 0
ResetAll_clear(e) == <<>>

ResetAll(e) == [i \in 1..Len(e) |-> [k |-> e[i].k, v |-> 0]]

(***************************************************************************)
(* The program.  pc is the position of the run loop: "prompt" (waiting for *)
(* an action keyword), "add_term" and "add_def" (inside add_card's loops), *)
(* "ask" (inside ask_card's loop), "done" (after exit), "crashed" (an      *)
(* exception left run).  out is what the last step printed.  io is what    *)
(* the last step put on the console, in order: every prompt with the reply *)
(* typed to it and every line printed, each with the function that did it. *)
(***************************************************************************)
NoOut == [cmd |-> "none"]

\* logged_input(prompt): the prompt and the reply go to memory_file as well
LoggedInput(prompt, reply) == [via |-> "logged_input", prompt |-> prompt, text |-> reply]

\* input(prompt): the prompt and the reply are on the console only
PlainInput(prompt, reply) == [via |-> "input", prompt |-> prompt, text |-> reply]

\* logged_print(line): the line goes to memory_file as well
LoggedPrint(line) == [via |-> "logged_print", prompt |-> "", text |-> <<line>>]

\* the action prompt of run answered with a keyword
ActionInput(keyword) == LoggedInput("Input the action", <<keyword>>)

\* what a step appends to memory_file: the entries of the logged functions
Written(entries) == SelectSeq(entries, LAMBDA x : x.via \in {"logged_input", "logged_print"})

Init ==
    /\ cards = <<>>
    /\ error_counter = <<>>
    /\ pc = "prompt"
    /\ term = None
    /\ terms = <<>>
    /\ remaining = 0
    /\ out = NoOut
    /\ io = <<>>

\* action == "add": enter add_card
CmdAdd ==
    /\ pc = "prompt"
    /\ pc' = "add_term"
    /\ out' = NoOut
    /\ io' = <<ActionInput("add")>>
    /\ UNCHANGED <<cards, error_counter, term, terms, remaining>>

\* outer loop of add_card: read the term
AddTerm(t) ==
    /\ pc = "add_term"
    /\ IF Has(cards, t)
       THEN /\ out' = [cmd |-> "add", res |-> "DuplicateTerm", term |-> t]
            /\ io' = <<LoggedInput("The card:", t), LoggedPrint("The card already exists. Try again:")>>
            /\ UNCHANGED <<pc, term>>
       ELSE /\ pc' = "add_def"
            /\ term' = t
            /\ out' = NoOut
            /\ io' = <<LoggedInput("The card:", t)>>
    /\ UNCHANGED <<cards, error_counter, terms, remaining>>

\* the test made on the terms: definition in self.cards
DefinitionExists_keys(c, d) == d \in KeySet(c)

\* definition in self.cards.values()
DefinitionExists(c, d) == d \in Range(Values(c))

\* self.error_counter[term] = 0
CountOfNewCard_setdefault(e, t) == IF Has(e, t) THEN e ELSE DictSet(e, t, 0)

CountOfNewCard(e, t) == DictSet(e, t, 0)

\* inner loop of add_card: read the definition
AddDef(d) ==
    /\ pc = "add_def"
    /\ IF DefinitionExists(cards, d)
       THEN /\ out' = [cmd |-> "add", res |-> "DuplicateDefinition", term |-> term, def |-> d]
            /\ io' = <<LoggedInput("The definition of the card:", d),
                       LoggedPrint("The definition already exists. Try again:")>>
            /\ UNCHANGED <<cards, error_counter, pc, term>>
       ELSE /\ cards' = DictSet(cards, term, d)
            /\ error_counter' = CountOfNewCard(error_counter, term)
            /\ out' = [cmd |-> "add", res |-> "Added", term |-> term, def |-> d]
            /\ io' = <<LoggedInput("The definition of the card:", d),
                       LoggedPrint("The pair has been added.")>>
            /\ pc' = "prompt"
            /\ term' = None
    /\ UNCHANGED <<terms, remaining>>

\* action == "remove"
RemoveCard(t) ==
    /\ pc = "prompt"
    /\ IF Has(cards, t)
       THEN /\ cards' = DictPop(cards, t)
            /\ out' = [cmd |-> "remove", res |-> "Removed", term |-> t]
            /\ io' = <<ActionInput("remove"), LoggedInput("Which card?", t),
                       LoggedPrint("The card has been removed.")>>
       ELSE /\ out' = [cmd |-> "remove", res |-> "NotFound", term |-> t]
            /\ io' = <<ActionInput("remove"), LoggedInput("Which card?", t),
                       LoggedPrint("Can't remove: there is no such card.")>>
            /\ UNCHANGED cards
    /\ UNCHANGED <<error_counter, pc, term, terms, remaining>>

\* the name typed for a file
FileName == <<"cards.txt">>

\* action == "import", args.import_from not given: the file name is asked
ImportCard(file) ==
    /\ pc = "prompt"
    /\ IF file = Missing
       THEN /\ out' = [cmd |-> "import", res |-> "FileNotFound"]
            /\ io' = <<ActionInput("import"), PlainInput("File name:", FileName),
                       LoggedPrint("File not found.")>>
            /\ pc' = AfterFileNotFound
            /\ UNCHANGED <<cards, error_counter>>
       ELSE LET r == ImportInto(cards, error_counter, file)
            IN  /\ cards' = r.cards
                /\ error_counter' = r.error_counter
                /\ IF r.raised = "none"
                   THEN /\ out' = [cmd |-> "import", res |-> "Loaded",
                                   loaded |-> r.loaded]
                        /\ io' = <<ActionInput("import"), PlainInput("File name:", FileName),
                                   LoggedPrint("cards have been loaded.")>>
                        /\ UNCHANGED pc
                   ELSE /\ out' = [cmd |-> "import", res |-> r.raised]
                        /\ io' = <<ActionInput("import"), PlainInput("File name:", FileName)>>
                        /\ pc' = "crashed"
    /\ UNCHANGED <<term, terms, remaining>>

\* action == "export", args.export_to not given: the file name is asked;
\* writable = FALSE is an open() that raises OSError
ExportCard(writable) ==
    /\ pc = "prompt"
    /\ io' = <<ActionInput("export"), PlainInput("File name:", FileName)>> \o
             (IF writable /\ ExportLines(cards, error_counter).raised = "none"
              THEN <<LoggedPrint("cards have been saved.")>> ELSE <<>>)
    /\ LET r == ExportLines(cards, error_counter)
       IN  IF ~writable
           THEN /\ out' = [cmd |-> "export", res |-> "OSError"]
                /\ pc' = "crashed"
           ELSE IF r.raised # "none"
           THEN /\ out' = [cmd |-> "export", res |-> r.raised]
                /\ pc' = "crashed"
           ELSE /\ out' = [cmd |-> "export", res |-> "Saved",
                           lines |-> r.lines, saved |-> Len(cards)]
                /\ UNCHANGED pc
    /\ UNCHANGED <<cards, error_counter, term, terms, remaining>>

\* The replies to "How many times to ask?"
AskTexts == {Str(n) : n \in (0 - 1)..MaxAsk} \cup {<<"x">>}

\* the number of questions of ask_card(n): none without cards, else the
\* length of range(n)
Iterations_range(c, n) == IF n > 0 THEN n ELSE 0

Iterations(c, n) == IF Keys(c) # <<>> /\ n > 0 THEN n ELSE 0

\* action == "ask": int(reply), then ask_card(n) up to its first question
AskCard(reply) ==
    /\ pc = "prompt"
    /\ io' = <<ActionInput("ask"), LoggedInput("How many times to ask?:", reply)>>
    /\ LET n == ParseInt(reply)
       IN  IF ~n.ok
           THEN /\ out' = [cmd |-> "ask", res |-> "ValueError"]
                /\ pc' = "crashed"
                /\ UNCHANGED <<terms, remaining>>
           ELSE IF Iterations(cards, n.val) > 0
           THEN /\ terms' = Keys(cards)
                /\ remaining' = Iterations(cards, n.val)
                /\ pc' = "ask"
                /\ out' = [cmd |-> "ask", res |-> "Asking", n |-> n.val]
           ELSE /\ out' = [cmd |-> "ask", res |-> "Nothing", n |-> n.val]
                /\ UNCHANGED <<pc, terms, remaining>>
    /\ UNCHANGED <<cards, error_counter, term>>

\* one iteration of ask_card's loop: asked = random.choice(terms)
AskOne(asked, answer) ==
    /\ pc = "ask"
    /\ asked \in Range(terms)
    /\ LET g == Grade(cards, asked, answer)
       IN  IF g.outcome # "Correct" /\ ~Has(error_counter, asked)
           THEN \* error_counter[term] += 1 on a term without a count
                /\ out' = [cmd |-> "ask", res |-> "KeyError"]
                /\ io' = <<LoggedInput("Print the definition of:", answer),
                           LoggedPrint(g.outcome)>>
                /\ pc' = "crashed"
                /\ UNCHANGED <<error_counter, terms, remaining>>
           ELSE /\ g.outcome # "Correct" => Get(error_counter, asked) < MaxErr
                /\ error_counter' = ErrorsAfter(cards, error_counter, asked, answer)
                /\ out' = [cmd |-> "ask", res |-> g.outcome, term |-> asked,
                           answer |-> answer, match |-> g.match]
                /\ io' = <<LoggedInput("Print the definition of:", answer),
                           LoggedPrint(g.outcome)>>
                /\ remaining' = remaining - 1
                /\ IF remaining' = 0
                   THEN pc' = "prompt" /\ terms' = <<>>
                   ELSE UNCHANGED <<pc, terms>>
    /\ UNCHANGED <<cards, term>>

\* action == "log"; writable = FALSE is an open() that raises OSError
Log(writable) ==
    /\ pc = "prompt"
    /\ IF writable
       THEN /\ out' = [cmd |-> "log", res |-> "Saved"]
            /\ io' = <<ActionInput("log"), LoggedInput("File name:", FileName),
                       LoggedPrint("The log has been saved.")>>
            /\ UNCHANGED pc
       ELSE /\ out' = [cmd |-> "log", res |-> "OSError"]
            /\ io' = <<ActionInput("log"), LoggedInput("File name:", FileName)>>
            /\ pc' = "crashed"
    /\ UNCHANGED <<cards, error_counter, term, terms, remaining>>

\* action == "hardest card"
HardestCard ==
    /\ pc = "prompt"
    /\ LET r == HardestReport(error_counter)
       IN  /\ out' = [cmd |-> "hardest", none |-> r.none,
                      hardest_cards |-> r.hardest_cards, most_errors |-> r.most_errors]
           /\ io' = <<ActionInput("hardest card"),
                      LoggedPrint(IF r.none THEN "There are no cards with errors."
                                  ELSE IF Len(r.hardest_cards) = 1 THEN "The hardest card is"
                                  ELSE "The hardest cards are")>>
    /\ UNCHANGED <<cards, error_counter, pc, term, terms, remaining>>

\* action == "reset stats"
ResetStats ==
    /\ pc = "prompt"
    /\ error_counter' = ResetAll(error_counter)
    /\ out' = [cmd |-> "reset"]
    /\ io' = <<ActionInput("reset stats"), LoggedPrint("Card statistics have been reset.")>>
    /\ UNCHANGED <<cards, pc, term, terms, remaining>>

\* action == "exit": print "bye bye", then FlashcardManager.exit; export_to is
\* whether args.export_to is set, writable = FALSE an open() that raises OSError
Exit(export_to, writable) ==
    /\ pc = "prompt"
    /\ io' = <<ActionInput("exit"), LoggedPrint("bye bye")>> \o
             (IF export_to /\ writable /\ ExportLines(cards, error_counter).raised = "none"
              THEN <<LoggedPrint("cards have been saved.")>> ELSE <<>>)
    /\ LET r == ExportLines(cards, error_counter)
       IN  IF ~export_to
           THEN /\ out' = [cmd |-> "exit", res |-> "Bye"]
                /\ pc' = "done"
           ELSE IF ~writable
           THEN /\ out' = [cmd |-> "exit", res |-> "OSError"]
                /\ pc' = "crashed"
           ELSE IF r.raised # "none"
           THEN /\ out' = [cmd |-> "exit", res |-> r.raised]
                /\ pc' = "crashed"
           ELSE /\ out' = [cmd |-> "exit", res |-> "Saved",
                           lines |-> r.lines, saved |-> Len(cards)]
                /\ pc' = "done"
    /\ UNCHANGED <<cards, error_counter, term, terms, remaining>>

\* the keywords run compares the action with
Keywords == {"add", "remove", "import", "export", "ask", "log", "hardest card",
             "reset stats", "exit"}

\* a text that is none of the keywords: no branch of run is taken, and the
\* loop asks for the next action
OtherAction(keyword) ==
    /\ pc = "prompt"
    /\ keyword \notin Keywords
    /\ out' = NoOut
    /\ io' = <<ActionInput(keyword)>>
    /\ UNCHANGED <<cards, error_counter, pc, term, terms, remaining>>

Next ==
    \/ CmdAdd
    \/ \E t \in Terms : AddTerm(t)
    \/ \E d \in Defs : AddDef(d)
    \/ \E t \in Terms : RemoveCard(t)
    \/ \E file \in InputFiles \cup {Missing} : ImportCard(file)
    \/ \E writable \in BOOLEAN : ExportCard(writable)
    \/ \E reply \in AskTexts : AskCard(reply)
    \/ \E asked \in Terms, answer \in Defs : AskOne(asked, answer)
    \/ \E writable \in BOOLEAN : Log(writable)
    \/ HardestCard
    \/ ResetStats
    \/ \E export_to \in BOOLEAN, writable \in BOOLEAN : Exit(export_to, writable)
    \/ \E keyword \in {"help", "add"} : OtherAction(keyword)

Spec == Init /\ [][Next]_vars

(***************************************************************************)
(* The session without the import command, over one more term.             *)
(***************************************************************************)
MoreTerms == Terms \cup {<<"b">>}

NextAdd ==
    \/ CmdAdd
    \/ \E t \in MoreTerms : AddTerm(t)
    \/ \E d \in Defs : AddDef(d)
    \/ \E t \in MoreTerms : RemoveCard(t)
    \/ \E reply \in AskTexts : AskCard(reply)
    \/ \E asked \in MoreTerms, answer \in Defs : AskOne(asked, answer)
    \/ ResetStats

SpecAdd == Init /\ [][NextAdd]_vars

(***************************************************************************)
(* The quiz over three terms: cards are added, one-record files imported   *)
(* (which may give two cards the same definition), and questions asked.    *)
(***************************************************************************)
NextQuiz ==
    \/ CmdAdd
    \/ \E t \in MoreTerms : AddTerm(t)
    \/ \E d \in Defs : AddDef(d)
    \/ \E file \in FilesOfLen(3) : ImportCard(file)
    \/ \E reply \in AskTexts : AskCard(reply)
    \/ \E asked \in MoreTerms, answer \in Defs : AskOne(asked, answer)

SpecQuiz == Init /\ [][NextQuiz]_vars

(***************************************************************************)
(* Imports of files of complete, well-formed records into a store the user *)
(* has added the term "b" to.  The files name the terms "a" (written with  *)
(* a leading blank) and "b".                                               *)
(***************************************************************************)
MaxRecords == 2   \* most records of a well-formed file

Records ==
    {<<Append(t, NL), Append(d, NL), Append(c, NL)>> :
        t \in {<<" ", "a">>, <<"b">>}, d \in Defs,
        c \in {x \in CountTexts : ParseInt(x).ok}}

RECURSIVE RecordFilesOf(_)
RecordFilesOf(k) ==
    IF k = 0 THEN {<<>>}
    ELSE {f \o r : f \in RecordFilesOf(k - 1), r \in Records}

RecordFiles == UNION {RecordFilesOf(k) : k \in 0..MaxRecords}

NextImport ==
    \/ CmdAdd
    \/ AddTerm(<<"b">>)
    \/ \E d \in Defs : AddDef(d)
    \/ \E file \in RecordFiles : ImportCard(file)

SpecImport == Init /\ [][NextImport]_vars

(***************************************************************************)
(* Properties.                                                             *)
(***************************************************************************)

\* C1: cards and error_counter always have the same set of keys; in
\* particular a removed term is a key of neither.
C1_SameKeySets == KeySet(cards) = KeySet(error_counter)

\* the largest error count among the terms of cards (cards not empty)
MaxPresent ==
    CHOOSE m \in {Get(error_counter, t) : t \in KeySet(cards)} :
        \A t \in KeySet(cards) : Get(error_counter, t) <= m

\* C2: hardest card reports nothing when cards is empty or the largest error
\* count of the terms in cards is 0, and otherwise exactly the terms of cards
\* with the largest error count, and that count.
C2_HardestOfStore ==
    out.cmd = "hardest" =>
        IF cards = <<>> \/ MaxPresent = 0
        THEN out.none
        ELSE /\ ~out.none
             /\ Range(out.hardest_cards) =
                  {t \in KeySet(cards) : Get(error_counter, t) = MaxPresent}
             /\ out.most_errors = MaxPresent

TermsDistinct ==
    \A i, j \in 1..Len(cards) : i # j => cards[i].k # cards[j].k

DefsDistinct ==
    \A i, j \in 1..Len(cards) : i # j => cards[i].v # cards[j].v

\* what one step inside add_card may do: reading a term inserts nothing and
\* goes on to the definition only for a term not in cards; reading a definition
\* that some card has inserts nothing and asks again, and any other one appends
\* the pair, with error count 0 at the end of error_counter or in place
AddAttempt ==
    /\ pc = "add_term" =>
         LET t == IF pc' = "add_def" THEN term' ELSE out'.term
         IN  /\ UNCHANGED <<cards, error_counter>>
             /\ (pc' = "add_def") <=> (t \notin KeySet(cards))
             /\ (pc' # "add_def") => (pc' = "add_term" /\ out'.res = "DuplicateTerm")
    /\ pc = "add_def" =>
         IF \E i \in 1..Len(cards) : cards[i].v = out'.def
         THEN /\ UNCHANGED <<cards, error_counter, pc, term>>
              /\ out'.res = "DuplicateDefinition"
         ELSE /\ cards' = Append(cards, [k |-> term, v |-> out'.def])
              /\ KeySet(error_counter') = KeySet(error_counter) \cup {term}
              /\ pc' = "prompt"

\* C3: without import, no two terms and no two definitions of the store are
\* equal, and an add attempt with a term or a definition the store already has
\* inserts nothing and leaves the store as it was, asking again.
C3_UniqueUnderAdd == [](TermsDistinct /\ DefsDistinct) /\ [][AddAttempt]_vars

C3_Witness ==
    /\ Len(cards) = 2
    /\ pc = "add_def"
    /\ out.cmd = "add"
    /\ out.res = "DuplicateDefinition"

\* C4 as stated: in every reachable state, import included, no two terms
\* have the same definition.
C4_DefinitionsDistinct ==
    \A i, j \in 1..Len(cards) : cards[i].v = cards[j].v => i = j

\* C4, amended: every command other than import keeps the definitions
\* pairwise distinct; only an import can give two terms the same definition.
C4_OnlyImportSharesDefinition ==
    [][(DefsDistinct /\ out'.cmd # "import") => DefsDistinct']_vars

C4_Witness ==
    /\ out.cmd = "add"
    /\ out.res = "Added"
    /\ Len(cards) = 2
    /\ DefsDistinct
    /\ \E t \in KeySet(error_counter) : Get(error_counter, t) < 0

\* C5: one quiz question on term T with answer A changes no term and no
\* definition; it adds 1 to the error count of T when A is not T's definition
\* and changes no other error count, and none at all when A is T's definition.
C5_AskFrame ==
    [][pc = "ask" =>
         /\ cards' = cards
         /\ Keys(error_counter') = Keys(error_counter)
         /\ \A t \in KeySet(error_counter) :
              Get(error_counter', t) =
                IF t = out'.term /\ out'.answer # Get(cards, out'.term)
                THEN Get(error_counter, t) + 1
                ELSE Get(error_counter, t)]_vars

C5_Witness ==
    /\ out.cmd = "ask"
    /\ out.res = "WrongButMatchesOtherTerm"
    /\ Get(error_counter, out.term) = 1
    /\ Get(error_counter, out.match) = 0

\* the position in cards of the first card whose definition is answer, 0 if none
FirstWith(answer) ==
    IF \E i \in 1..Len(cards) : cards[i].v = answer
    THEN CHOOSE i \in 1..Len(cards) :
            /\ cards[i].v = answer
            /\ \A j \in 1..Len(cards) : cards[j].v = answer => i <= j
    ELSE 0

\* C6: the outcome of a question on T answered A is Correct iff A is T's
\* definition; otherwise WrongButMatchesOtherTerm iff some card has the
\* definition A, naming the first such term of cards, which is not T; otherwise
\* Wrong.
C6_Grading ==
    (out.cmd = "ask" /\ out.res \in {"Correct", "WrongButMatchesOtherTerm", "Wrong"}) =>
        LET D == Get(cards, out.term)
            f == FirstWith(out.answer)
        IN  /\ out.res = "Correct" <=> out.answer = D
            /\ out.res = "WrongButMatchesOtherTerm" <=> (out.answer # D /\ f # 0)
            /\ out.res = "Wrong" <=> (out.answer # D /\ f = 0)
            /\ out.res = "WrongButMatchesOtherTerm" =>
                 (out.match = cards[f].k /\ out.match # out.term)

C6_Witness ==
    /\ out.cmd = "ask"
    /\ out.res = "WrongButMatchesOtherTerm"
    /\ Cardinality({i \in 1..Len(cards) : cards[i].v = out.answer}) = 2

\* C7: a store with non-negative error counts that is exported and imported
\* into an empty store comes back with the same terms, definitions and error
\* counts in the same order.
C7_RoundTrip ==
    (\A t \in KeySet(cards) : Get(error_counter, t) >= 0) =>
        LET w == ExportLines(cards, error_counter)
            r == ImportInto(<<>>, <<>>, w.lines)
        IN  /\ w.raised = "none"
            /\ r.raised = "none"
            /\ r.cards = cards
            /\ r.error_counter =
                 [i \in 1..Len(cards) |->
                    [k |-> cards[i].k, v |-> Get(error_counter, cards[i].k)]]

\* record number i of a file of complete records, as import reads it
RecordTerm(f, i) == Strip(f[3 * i - 2])

RecordDef(f, i) == Strip(f[3 * i - 1])

RecordCount(f, i) == ParseInt(f[3 * i]).val

\* the number of the last record of f for term t, 0 if f has none
LastRecordOf(f, t) ==
    IF \E i \in 1..(Len(f) \div 3) : RecordTerm(f, i) = t
    THEN CHOOSE i \in 1..(Len(f) \div 3) :
            /\ RecordTerm(f, i) = t
            /\ \A j \in 1..(Len(f) \div 3) : RecordTerm(f, j) = t => j <= i
    ELSE 0

\* C8: importing a file of k well-formed records succeeds and reports k; every
\* term of the file ends with the definition and error count of its last
\* record, whatever the store held, and every other term keeps its own.
C8_MergeLastWins ==
    pc = "prompt" =>
        \A f \in RecordFiles :
            LET r == ImportInto(cards, error_counter, f)
            IN  /\ r.raised = "none"
                /\ r.loaded = Len(f) \div 3
                /\ KeySet(r.cards) =
                     KeySet(cards) \cup {RecordTerm(f, i) : i \in 1..(Len(f) \div 3)}
                /\ KeySet(r.error_counter) =
                     KeySet(error_counter) \cup {RecordTerm(f, i) : i \in 1..(Len(f) \div 3)}
                /\ \A t \in KeySet(r.cards) :
                     LET i == LastRecordOf(f, t)
                     IN  IF i # 0
                         THEN /\ Get(r.cards, t) = RecordDef(f, i)
                              /\ Get(r.error_counter, t) = RecordCount(f, i)
                         ELSE /\ Get(r.cards, t) = Get(cards, t)
                              /\ Get(r.error_counter, t) = Get(error_counter, t)

\* two records for "a" were merged into a store that held "b"
C8_Witness ==
    /\ out.cmd = "import"
    /\ out.res = "Loaded"
    /\ out.loaded = 2
    /\ Keys(cards) = <<<<"b">>, <<"a">>>>
    /\ Get(error_counter, <<"b">>) = 0

\* C9: an import of a missing file prints "File not found.", leaves cards and
\* error_counter as they were, and the loop goes on to the next prompt.
C9_MissingFileRecovered ==
    [][ImportCard(Missing) =>
         /\ out' = [cmd |-> "import", res |-> "FileNotFound"]
         /\ UNCHANGED <<cards, error_counter>>
         /\ pc' = "prompt"]_vars

C9_Witness ==
    /\ out.cmd = "import"
    /\ out.res = "FileNotFound"
    /\ cards # <<>>
    /\ pc = "prompt"

\* C10: an import of a file of 3k+1 or 3k+2 lines merges the k complete
\* records, ignores the rest, reports k cards loaded and goes on to the next
\* prompt.
C10_PartialGroupIgnored ==
    [][\A f \in InputFiles :
         (Len(f) % 3 # 0 /\ ImportCard(f)) =>
            LET whole == SubSeq(f, 1, 3 * (Len(f) \div 3))
            IN  ImportInto(cards, error_counter, whole).raised = "none" =>
                    /\ cards' = ImportInto(cards, error_counter, whole).cards
                    /\ error_counter' = ImportInto(cards, error_counter, whole).error_counter
                    /\ out' = [cmd |-> "import", res |-> "Loaded",
                               loaded |-> Len(f) \div 3]
                    /\ pc' = "prompt"]_vars

\* C11: every stored error count is a non-negative integer: import takes a
\* record only when its third line is a non-negative decimal integer, and
\* no command brings a count below 0.
C11_CountsNonNegative ==
    \A i \in 1..Len(error_counter) : error_counter[i].v >= 0

\* the terms of a list of terms that are in cards, in the order of the list
PresentOf(list) == SelectSeq(list, LAMBDA t : Has(cards, t))

\* C12: the terms the hardest-card report lists stand in the iteration order
\* of the store, the order in which export writes them, also after a term
\* was removed and added again.
C12_HardestInStoreOrder ==
    (out.cmd = "hardest" /\ ~out.none) =>
        PresentOf(out.hardest_cards) =
            SelectSeq(Keys(cards), LAMBDA t : t \in Range(out.hardest_cards))

\* C13: every prompt shown, every reply typed and every line printed, for
\* every command (the file-name prompts of import and export too), is
\* appended to the transcript in the order it appeared on the console.
C13_ConsoleIsTranscribed == Written(io) = io

\* C14: the process is aborted only inside a file operation; no text typed
\* at a prompt (an unknown keyword, a reply to "How many times to ask?" that
\* is not a number, a duplicate term or definition, a remove of an absent
\* term) aborts it.
C14_AbortOnlyInFileOperation ==
    pc = "crashed" => out.cmd \in {"import", "export", "log", "exit"}

\* the sum of the counts of error_counter
RECURSIVE SumOf(_)
SumOf(e) == IF e = <<>> THEN 0 ELSE Head(e).v + SumOf(Tail(e))

\* C15: ask with the count n asks exactly n questions on a store with cards
\* when n > 0 and none when n <= 0 or the store is empty, each about a term
\* of the store: the command leaves remaining = n (or 0) questions to ask and
\* the store as it is, every step of the loop is one question about a term of
\* cards that takes one from remaining, and the loop ends exactly when none
\* remains.  The sum of the counts plus the questions remaining never grows,
\* so the sum grows by at most max(n, 0) and not at all when nothing is asked.
C15_AskAsksExactlyN ==
    /\ [](pc = "ask" => remaining >= 1 /\ cards # <<>>)
    /\ [](pc = "prompt" => remaining = 0)
    /\ [][/\ (pc = "prompt" /\ out'.cmd = "ask" /\ out'.res \in {"Asking", "Nothing"}) =>
               /\ remaining' = IF cards # <<>> /\ out'.n > 0 THEN out'.n ELSE 0
               /\ (pc' = "ask") <=> (remaining' > 0)
               /\ pc' \in {"ask", "prompt"}
               /\ UNCHANGED <<cards, error_counter>>
          /\ pc = "ask" =>
               /\ out'.cmd = "ask"
               /\ out'.term \in KeySet(cards)
               /\ remaining' = remaining - 1
               /\ (pc' = "prompt") <=> (remaining' = 0)
               /\ pc' \in {"ask", "prompt"}
               /\ cards' = cards
               /\ SumOf(error_counter') + remaining' <= SumOf(error_counter) + remaining
         ]_vars

\* the first of two questions was answered wrongly and the second is to come
C15_Witness ==
    /\ pc = "ask"
    /\ remaining = 1
    /\ out.cmd = "ask"
    /\ out.res = "Wrong"
    /\ SumOf(error_counter) = 1

\* C16: right after an add that succeeded for a term, the term is in the
\* store and its error count is 0, also when the term was in the store
\* before with another count and was removed.
C16_AddedStartsAtZero ==
    (out.cmd = "add" /\ out.res = "Added") =>
        /\ Has(cards, out.term)
        /\ Has(error_counter, out.term)
        /\ Get(error_counter, out.term) = 0

\* a term was added again after its removal (it kept its old place in
\* error_counter and is the last of cards) while another card has an error
C16_Witness ==
    /\ out.cmd = "add"
    /\ out.res = "Added"
    /\ Len(cards) >= 2
    /\ Keys(error_counter)[1] = out.term
    /\ Keys(cards)[Len(cards)] = out.term
    /\ SumOf(error_counter) > 0

\* every count of error_counter is 0
AllZero == \A i \in 1..Len(error_counter) : error_counter[i].v = 0

\* C17: reset stats sets every error count to 0 and changes no term and no
\* definition; a second reset right after the first changes nothing; and
\* from the reset until the next wrong answer or import the hardest-card
\* report is "no cards with errors".
C17_ResetZeroesAll ==
    [][/\ ResetStats =>
            /\ cards' = cards
            /\ Keys(error_counter') = Keys(error_counter)
            /\ AllZero'
            /\ HardestReport(error_counter').none
       /\ (ResetStats /\ out.cmd = "reset") => UNCHANGED vars
       /\ (AllZero /\ out'.cmd # "import"
                   /\ ~(out'.cmd = "ask" /\ out'.res \in {"Wrong", "WrongButMatchesOtherTerm"})) =>
            /\ AllZero'
            /\ HardestReport(error_counter').none
      ]_vars

\* a reset of a store with a card and a count left behind by a removed term
C17_Witness ==
    /\ out.cmd = "reset"
    /\ cards # <<>>
    /\ Len(error_counter) > Len(cards)
    /\ AllZero

\* C18: a remove of a term that is not in the store reports not-found and
\* changes neither cards nor the counts; a remove of a term of the store
\* reports the removal, after which the term is not in cards, every other
\* card is there with the definition and the count it had, and a second
\* remove of the same term reports not-found.
C18_RemoveFrame ==
    [][(pc = "prompt" /\ out'.cmd = "remove") =>
          LET t == out'.term
          IN  /\ pc' = "prompt"
              /\ IF Has(cards, t)
                 THEN /\ out'.res = "Removed"
                      /\ ~Has(cards', t)
                      /\ KeySet(cards') = KeySet(cards) \ {t}
                      /\ \A u \in KeySet(cards) \ {t} :
                            /\ Get(cards', u) = Get(cards, u)
                            /\ Get(error_counter', u) = Get(error_counter, u)
                 ELSE /\ out'.res = "NotFound"
                      /\ UNCHANGED <<cards, error_counter>>
              /\ (out.cmd = "remove" /\ out.res = "Removed" /\ out.term = t) =>
                    out'.res = "NotFound"
      ]_vars

\* a term that was in the store is removed a second time, next to a card
\* that has an error
C18_Witness ==
    /\ out.cmd = "remove"
    /\ out.res = "NotFound"
    /\ Has(error_counter, out.term)
    /\ \E u \in KeySet(cards) : Get(error_counter, u) > 0

\* C19: every term that has a definition has an error count (the keys of
\* cards are keys of error_counter), so that export, the export at exit and
\* the increment of ask never fail on a term without a count.
C19_CountForEveryCard ==
    /\ KeySet(cards) \subseteq KeySet(error_counter)
    /\ pc = "crashed" => out.res # "KeyError"

\* an export has written the counts of two cards from an error_counter that
\* is not in the order of cards
C19_Witness ==
    /\ out.cmd = "export"
    /\ out.res = "Saved"
    /\ Len(cards) = 2
    /\ Keys(cards) # Keys(error_counter)

\* C20: an import that fails on a malformed record (a third line that is no
\* number, or an incomplete group) leaves cards and the counts exactly as
\* they were: no record before the malformed one has been merged.
C20_MalformedImportChangesNothing ==
    [][(pc = "prompt" /\ out'.cmd = "import" /\ out'.res \in {"ValueError", "IndexError"}) =>
          UNCHANGED <<cards, error_counter>>]_vars

====
